---- MODULE Spec2Model ----
(***************************************************************************)
(* Block library tooling of mcp-da-live-admin: the block content extractor *)
(* (parseBlockInstances, extractBlockContent), content source resolution   *)
(* (resolveBlockSource, createBlockSource), the best-effort source reads,  *)
(* createBlockDoc and checkBlockDocExists, generateBlockTemplate, the      *)
(* stylesheet scan of analyzeBlock, and the placeholder handlers over the  *)
(* sheet store and the library registration.                               *)
(*                                                                         *)
(* HTML is a sequence of tokens, the units the regular expressions of      *)
(* parseBlockInstances tell apart: an opening <div ...> tag (with or       *)
(* without a class attribute), a </div> tag, a run of whitespace and a run *)
(* of other text.  A position in the document is the index of the token    *)
(* that starts there.  A class name is the sequence of its hyphen          *)
(* separated words, so "hero-wide" is <<"hero", "wide">> and the empty     *)
(* string is <<>>.                                                         *)
(***************************************************************************)
EXTENDS Integers, Sequences, FiniteSets, Bags, TLC

VARIABLES
    \* parseBlockInstances
    html, blockName, lastIndex, blockInstances, pcParse, lastMatch,
    \* extractBlockContent
    sourcePaths, pages, pathIdx, fetched, extractResult, pcExtract,
    \* resolveBlockSource, createBlockSource
    args, cwdHasBlocks, gitConfig, resolver, resolved, pcResolve,
    \* the content source's reads and the tools built on them
    source, env, readResult, pcReads,
    \* createBlockDoc, checkBlockDocExists
    docBlock, readResponse, uploadResponse, requests, docResult, pcDoc,
    \* generateBlockTemplate
    tplArgs, sections, pcTemplate,
    \* analyzeBlock, the stylesheet
    cssContent, analyzedBlock, analysis, pcAnalyze,
    \* the placeholder handlers, the sheet store and the library registration
    sheetConfigPath, sheets, library, inFlight, sheetBefore, libraryBefore, sheetCall, sheetLog, regResult, sheetResult,
    pcSheet

parseVars == <<html, blockName, lastIndex, blockInstances, pcParse, lastMatch>>

extractVars == <<sourcePaths, pages, pathIdx, fetched, extractResult, pcExtract>>

resolveVars == <<args, cwdHasBlocks, gitConfig, resolver, resolved, pcResolve>>

readVars == <<source, env, readResult, pcReads>>

docVars == <<docBlock, readResponse, uploadResponse, requests, docResult, pcDoc>>

templateVars == <<tplArgs, sections, pcTemplate>>

analyzeVars == <<cssContent, analyzedBlock, analysis, pcAnalyze>>

sheetVars == <<sheetConfigPath, sheets, library, inFlight, sheetBefore, libraryBefore, sheetCall, sheetLog, regResult, sheetResult, pcSheet>>

vars == <<parseVars, extractVars, resolveVars, readVars, docVars, templateVars, analyzeVars, sheetVars>>

\* Longest document, in tokens.
MaxLen == 5

\* Longest list of candidate page paths.
MaxPaths == 4

\* Longest error message, in characters.
MaxMsgLen == 4

\* Longest variant list.
MaxVariants == 2

\* Longest stylesheet, in pieces.
MaxCss == 6

\* Longest batch of placeholders.
MaxBatch == 2

\* Most tool calls in flight at a time.
MaxInFlight == 2

\* Longest batch of a call that overlaps others.
MaxFlightBatch == 1

\* Longest sheet found in the store.
MaxStored == 3

EmptyStr == <<>>

Min(S) == CHOOSE x \in S : \A y \in S : x <= y

\* ------------------------------------------------------------------ tokens

DivTag(hasClass, lead, names) ==
    [kind |-> "open", hasClass |-> hasClass, lead |-> lead, names |-> names]

PlainDiv == DivTag(FALSE, FALSE, <<>>)
CloseDiv == [kind |-> "close", hasClass |-> FALSE, lead |-> FALSE, names |-> <<>>]
Text     == [kind |-> "text",  hasClass |-> FALSE, lead |-> FALSE, names |-> <<>>]
Space    == [kind |-> "ws",    hasClass |-> FALSE, lead |-> FALSE, names |-> <<>>]

\* <div class="hero">, <div class="hero dark">, <div class=" hero dark">,
\* <div class="hero-wide Hero">
HeroTag     == DivTag(TRUE, FALSE, << <<"hero">> >>)
HeroDarkTag == DivTag(TRUE, FALSE, << <<"hero">>, <<"dark">> >>)
LeadDarkTag == DivTag(TRUE, TRUE,  << <<"hero">>, <<"dark">> >>)
BemTag      == DivTag(TRUE, FALSE, << <<"hero", "wide">>, <<"Hero">> >>)

Tokens == {HeroTag, HeroDarkTag, LeadDarkTag, BemTag, PlainDiv, CloseDiv, Text, Space}

Documents == UNION {[1..n -> Tokens] : n \in 0..MaxLen}

\* ------------------------------------------------- parseBlockInstances

\* Case folding of the 'i' flag, over the words the documents use.
Lower(w) == IF w = "Hero" THEN "hero" ELSE w

\* <div([^>]*class="[^"]*\bNAME\b[^"]*"[^>]*)> with flags gi, on one token:
\* the class attribute holds NAME as a whole word, whatever the case.
OpenTagMatches(tok, name) ==
    /\ tok.kind = "open"
    /\ tok.hasClass
    /\ \E i \in 1..Len(tok.names) :
         \E j \in 1..Len(tok.names[i]) : Lower(tok.names[i][j]) = Lower(name)

\* openTagRegex.exec(html) from lastIndex: the index of the match, 0 for null.
ExecOpenTag(doc, from, name) ==
    LET hits == {i \in from..Len(doc) : OpenTagMatches(doc[i], name)}
    IN  IF hits = {} THEN 0 ELSE Min(hits)

\* classMatch[1].split(/\s+/): leading whitespace yields a leading empty string.
SplitClasses(tok) ==
    IF tok.lead THEN <<EmptyStr>> \o tok.names ELSE tok.names

\* cls.startsWith(blockName + '-')
StartsWithBlockPrefix(cls, name) == Len(cls) >= 2 /\ cls[1] = name

\* classes.find(cls => cls !== blockName && !cls.startsWith(blockName + '-')) || ''
FindVariant(classes, name) ==
    LET ok == {i \in 1..Len(classes) :
                 /\ classes[i] # <<name>>
                 /\ ~StartsWithBlockPrefix(classes[i], name)}
    IN  IF ok = {} THEN EmptyStr ELSE classes[Min(ok)]

\* divOpenRegex.exec / divCloseRegex.exec from pos: index of the match, 0 for null.
ExecKind(doc, pos, kind) ==
    LET hits == {i \in pos..Len(doc) : doc[i].kind = kind}
    IN  IF hits = {} THEN 0 ELSE Min(hits)

\* ScanClose stopping at the first </div>, whatever the depth.
ScanCloseFirst(doc, pos, depth) ==
    IF pos > Len(doc) THEN 0 ELSE ExecKind(doc, pos, "close")

\* ScanClose taking the end of the document for the close tag it did not find.
RECURSIVE ScanCloseToEnd(_, _, _)
ScanCloseToEnd(doc, pos, depth) ==
    IF pos > Len(doc) THEN Len(doc) + 1
    ELSE LET nextOpen  == ExecKind(doc, pos, "open")
             nextClose == ExecKind(doc, pos, "close")
         IN  IF nextClose = 0 THEN Len(doc) + 1
             ELSE IF nextOpen # 0 /\ nextOpen < nextClose
                  THEN ScanCloseToEnd(doc, nextOpen + 1, depth + 1)
                  ELSE IF depth - 1 = 0 THEN nextClose
                       ELSE ScanCloseToEnd(doc, nextClose + 1, depth - 1)

\* The while (depth > 0 && pos < html.length) loop: the index of the close tag
\* at which depth reaches 0, or 0 when the loop ends without one.
RECURSIVE ScanClose(_, _, _)
ScanClose(doc, pos, depth) ==
    IF pos > Len(doc) THEN 0
    ELSE LET nextOpen  == ExecKind(doc, pos, "open")
             nextClose == ExecKind(doc, pos, "close")
         IN  IF nextClose = 0 THEN 0
             ELSE IF nextOpen # 0 /\ nextOpen < nextClose
                  THEN ScanClose(doc, nextOpen + 1, depth + 1)
                  ELSE IF depth - 1 = 0 THEN nextClose
                       ELSE ScanClose(doc, nextClose + 1, depth - 1)

\* String.prototype.trim on a token sequence.
RECURSIVE TrimLeft(_)
TrimLeft(s) ==
    IF s # <<>> /\ Head(s).kind = "ws" THEN TrimLeft(Tail(s)) ELSE s

RECURSIVE TrimRight(_)
TrimRight(s) ==
    IF s # <<>> /\ s[Len(s)].kind = "ws" THEN TrimRight(SubSeq(s, 1, Len(s) - 1)) ELSE s

Trim(s) == TrimRight(TrimLeft(s))

\* if (blockInstances[variant]): an entry that is a non-empty string.
Captured(instances, variant) ==
    variant \in DOMAIN instances /\ instances[variant] # <<>>

\* blockInstances[variant] = content
Store(instances, variant, content) ==
    [v \in DOMAIN instances \cup {variant} |->
        IF v = variant THEN content ELSE instances[v]]

\* One iteration of the while ((match = openTagRegex.exec(html)) !== null) loop
\* for the match at index m: the instances after it and what happened.
MatchStep(doc, name, m, instances) ==
    LET variant == FindVariant(SplitClasses(doc[m]), name)
        close   == ScanClose(doc, m + 1, 1)
    IN  IF Captured(instances, variant)
        THEN [instances |-> instances,
              info |-> [idx |-> m, variant |-> variant, outcome |-> "skipped", close |-> 0]]
        ELSE IF close = 0
        THEN [instances |-> instances,
              info |-> [idx |-> m, variant |-> variant, outcome |-> "dropped", close |-> 0]]
        ELSE [instances |-> Store(instances, variant, Trim(SubSeq(doc, m + 1, close - 1))),
              info |-> [idx |-> m, variant |-> variant, outcome |-> "recorded", close |-> close]]

NoMatch == [idx |-> 0, variant |-> EmptyStr, outcome |-> "none", close |-> 0]

\* The variables of an operation that is not running.
IdleParse ==
    /\ html = <<>>
    /\ blockName = "hero"
    /\ lastIndex = 1
    /\ blockInstances = << >>
    /\ pcParse = "idle"
    /\ lastMatch = NoMatch

IdleExtract ==
    /\ sourcePaths = [kind |-> "absent", paths |-> <<>>]
    /\ pages = << >>
    /\ pathIdx = 0
    /\ fetched = <<>>
    /\ extractResult = [status |-> "none", found |-> FALSE, content |-> << >>, sourceUsed |-> ""]
    /\ pcExtract = "idle"

Unresolved ==
    [status |-> "pending", type |-> "", root |-> "", branch |-> "", error |-> "", git |-> ""]

IdleResolve ==
    /\ args = [github |-> [given |-> FALSE, branch |-> "undefined", blocksPath |-> "undefined"], useLocal |-> FALSE, localBlocksPath |-> "undefined"]
    /\ cwdHasBlocks = FALSE
    /\ gitConfig = "unreadable"
    /\ resolver = ""
    /\ resolved = Unresolved
    /\ pcResolve = "idle"

NoResult == [op |-> "none", file |-> "", threw |-> FALSE, value |-> <<>>]

IdleReads ==
    /\ source = [type |-> "", root |-> ""]
    /\ env = [throws |-> {}, jsText |-> "", dirs |-> <<>>, entries |-> <<>>]
    /\ readResult = NoResult
    /\ pcReads = "idle"

NoError == [kind |-> "none", hasMessage |-> FALSE, message |-> <<>>]

NoDocResult == [op |-> "none", status |-> "none", exists |-> FALSE, created |-> FALSE,
                error |-> NoError]

IdleDoc ==
    /\ docBlock = [name |-> "cards", valid |-> TRUE]
    /\ readResponse = [ok |-> TRUE, error |-> NoError]
    /\ uploadResponse = [ok |-> TRUE, error |-> NoError]
    /\ requests = <<>>
    /\ docResult = NoDocResult
    /\ pcDoc = "idle"

IdleTemplate ==
    /\ tplArgs = [blockName |-> <<>>, description |-> "undefined", variants |-> "undefined",
                  list |-> <<>>, structure |-> {}, hasContent |-> FALSE, content |-> << >>]
    /\ sections = <<>>
    /\ pcTemplate = "idle"

IdleAnalyze ==
    /\ cssContent = [isNull |-> TRUE, text |-> <<>>]
    /\ analyzedBlock = "cards"
    /\ analysis = [status |-> "none", hasCSS |-> FALSE, variants |-> <<>>]
    /\ pcAnalyze = "idle"

NoCall ==
    [op |-> "none", step |-> "", configPath |-> "", key |-> "", text |-> "",
     placeholders |-> <<>>, rewritten |-> FALSE]

NoSheetResult ==
    [status |-> "none", failedAt |-> "", removed |-> FALSE, registered |-> FALSE,
     alreadyRegistered |-> FALSE, librarySheet |-> [existed |-> FALSE, entryCount |-> 0],
     totalPlaceholders |-> 0, placeholders |-> <<>>]

IdleSheets ==
    /\ sheetConfigPath = ""
    /\ sheets = [p \in {<<"placeholders">>, <<"cfg", "placeholders">>} |-> <<>>]
    /\ library = [exists |-> FALSE, entries |-> <<>>]
    /\ inFlight = EmptyBag
    /\ sheetBefore = sheets
    /\ libraryBefore = library
    /\ sheetCall = NoCall
    /\ sheetLog = <<>>
    /\ regResult = [registered |-> FALSE, existed |-> FALSE, createdSheet |-> FALSE,
                    libraryEntryCount |-> 0]
    /\ sheetResult = NoSheetResult
    /\ pcSheet = "idle"

InitParse ==
    /\ html \in Documents
    /\ blockName = "hero"
    /\ lastIndex = 1
    /\ blockInstances = << >>
    /\ pcParse = "loop"
    /\ lastMatch = NoMatch
    /\ IdleExtract
    /\ IdleResolve
    /\ IdleReads
    /\ IdleDoc
    /\ IdleTemplate
    /\ IdleAnalyze
    /\ IdleSheets

\* The loop body runs for the next match.
ProcessMatch ==
    /\ pcParse = "loop"
    /\ LET m == ExecOpenTag(html, lastIndex, blockName)
       IN  /\ m # 0
           /\ LET r == MatchStep(html, blockName, m, blockInstances)
              IN  /\ blockInstances' = r.instances
                  /\ lastMatch' = r.info
           /\ lastIndex' = m + 1
    /\ UNCHANGED <<html, blockName, pcParse, extractVars, resolveVars, readVars, docVars, templateVars, analyzeVars, sheetVars>>

\* exec returns null: the loop ends and blockInstances is returned.
ReturnInstances ==
    /\ pcParse = "loop"
    /\ ExecOpenTag(html, lastIndex, blockName) = 0
    /\ pcParse' = "done"
    /\ UNCHANGED <<html, blockName, lastIndex, blockInstances, lastMatch, extractVars, resolveVars, readVars, docVars, templateVars, analyzeVars, sheetVars>>

NextParse == ProcessMatch \/ ReturnInstances

SpecParse == InitParse /\ [][NextParse]_vars

\* The whole of parseBlockInstances: the loop run to its end.
RECURSIVE ParseFrom(_, _, _, _)
ParseFrom(doc, name, from, instances) ==
    LET m == ExecOpenTag(doc, from, name)
    IN  IF m = 0 THEN instances
        ELSE ParseFrom(doc, name, m + 1, MatchStep(doc, name, m, instances).instances)

ParseBlockInstances(doc, name) == ParseFrom(doc, name, 1, << >>)

\* ------------------------------------------------- extractBlockContent

Paths == {"/a", "/b", "/c"}

\* What the admin API answers for a page: the request fails, the body is not a
\* string, the body is HTML, or the body is a JSON string literal (between
\* double quotes) that JSON.parse decodes to HTML or rejects.
Response(kind, doc) == [kind |-> kind, doc |-> doc]

Responses ==
    { Response("error", <<>>),
      Response("object", <<>>),
      Response("badjson", <<>>),
      Response("html", <<HeroTag, Text, CloseDiv>>),
      Response("json", <<HeroDarkTag, CloseDiv>>),
      Response("html", <<PlainDiv, Text, CloseDiv>>),
      Response("html", <<HeroTag, Text>>) }

\* sourcePaths as the caller passes it: absent, one string, or an array.
SourcePathInputs ==
    {[kind |-> "absent", paths |-> <<>>]}
        \cup {[kind |-> "string", paths |-> <<p>>] : p \in Paths \cup {""}}
        \cup {[kind |-> "array", paths |-> ps] :
                ps \in UNION {[1..n -> Paths] : n \in 0..MaxPaths}}

\* !sourcePaths
NoSourcePaths(sp) ==
    sp.kind = "absent" \/ (sp.kind = "string" /\ sp.paths = <<"">>)

\* fetchSourceDocument: the document, or threw when daAdminRequest or
\* JSON.parse throws.
FetchSourceDocument(resp) ==
    IF resp.kind \in {"error", "badjson"} THEN [threw |-> TRUE, doc |-> <<>>]
    ELSE [threw |-> FALSE, doc |-> resp.doc]

\* Object.keys(content).length > 0 taken for true whatever the content.
HasInstancesAlways(content) == TRUE

\* content && Object.keys(content).length > 0
HasInstances(content) == DOMAIN content # {}

NotFound == [status |-> "returned", found |-> FALSE, content |-> << >>, sourceUsed |-> ""]

\* One pass of the for loop body for the candidate path p: the value returned,
\* or status "continue".
TryPath(p, resp, name) ==
    LET got == FetchSourceDocument(resp)
    IN  IF got.threw THEN [NotFound EXCEPT !.status = "continue"]
        ELSE LET content == ParseBlockInstances(got.doc, name)
             IN  IF HasInstances(content)
                 THEN [status |-> "returned", found |-> TRUE,
                       content |-> content, sourceUsed |-> p]
                 ELSE [NotFound EXCEPT !.status = "continue"]

InitExtract ==
    /\ IdleParse
    /\ IdleResolve
    /\ IdleReads
    /\ IdleDoc
    /\ IdleTemplate
    /\ IdleAnalyze
    /\ IdleSheets
    /\ sourcePaths \in SourcePathInputs
    /\ pages \in [Paths -> Responses]
    /\ pathIdx = 0
    /\ fetched = <<>>
    /\ extractResult = [status |-> "none", found |-> FALSE, content |-> << >>, sourceUsed |-> ""]
    /\ pcExtract = "start"

\* if (!sourcePaths) return { content: null, sourceUsed: null }
ExtractNoPaths ==
    /\ pcExtract = "start"
    /\ NoSourcePaths(sourcePaths)
    /\ extractResult' = NotFound
    /\ pcExtract' = "done"
    /\ UNCHANGED <<sourcePaths, pages, pathIdx, fetched, parseVars, resolveVars, readVars, docVars, templateVars, analyzeVars, sheetVars>>

\* const paths = Array.isArray(sourcePaths) ? sourcePaths : [sourcePaths]
ExtractEnterLoop ==
    /\ pcExtract = "start"
    /\ ~NoSourcePaths(sourcePaths)
    /\ pathIdx' = 1
    /\ pcExtract' = "loop"
    /\ UNCHANGED <<sourcePaths, pages, fetched, extractResult, parseVars, resolveVars, readVars, docVars, templateVars, analyzeVars, sheetVars>>

\* The loop body for the next candidate.
TryCandidate ==
    /\ pcExtract = "loop"
    /\ pathIdx <= Len(sourcePaths.paths)
    /\ LET p == sourcePaths.paths[pathIdx]
           r == TryPath(p, pages[p], blockName)
       IN  /\ fetched' = Append(fetched, p)
           /\ IF r.status = "continue"
              THEN /\ pathIdx' = pathIdx + 1
                   /\ UNCHANGED <<extractResult, pcExtract>>
              ELSE /\ extractResult' = r
                   /\ pcExtract' = "done"
                   /\ UNCHANGED pathIdx
    /\ UNCHANGED <<sourcePaths, pages, parseVars, resolveVars, readVars, docVars, templateVars, analyzeVars, sheetVars>>

\* The loop ends without a return.
ExtractExhausted ==
    /\ pcExtract = "loop"
    /\ pathIdx > Len(sourcePaths.paths)
    /\ extractResult' = NotFound
    /\ pcExtract' = "done"
    /\ UNCHANGED <<sourcePaths, pages, pathIdx, fetched, parseVars, resolveVars, readVars, docVars, templateVars, analyzeVars, sheetVars>>

NextExtract == ExtractNoPaths \/ ExtractEnterLoop \/ TryCandidate \/ ExtractExhausted

SpecExtract == InitExtract /\ [][NextExtract]_vars

\* ------------------------------------- resolveBlockSource, createBlockSource

\* JavaScript values that count as false in a condition.
Falsy(x) == x \in {"undefined", "null", ""}

\* args.github: absent, or {org, repo, branch?, blocksPath?}.
NoGithub == [given |-> FALSE, branch |-> "undefined", blocksPath |-> "undefined"]

GithubConfigs ==
    {NoGithub} \cup
    {[given |-> TRUE, branch |-> b, blocksPath |-> bp] :
        b \in {"undefined", "dev"}, bp \in {"undefined", "src/blocks"}}

SourceArgs ==
    [github : GithubConfigs, useLocal : BOOLEAN,
     localBlocksPath : {"undefined", "", "/custom/blocks"}]

\* await detectLocalBlocksDir(): the path of ./blocks, or null.
DetectLocalBlocksDir(hasBlocks) == IF hasBlocks THEN "cwd/blocks" ELSE "null"

\* detectLocalBlocksDir() without await: the pending promise, not its value.
DetectLocalBlocksDirUnawaited(hasBlocks) == "Promise"

\* await detectGitRemote(): {org, repo, remote} or null.
DetectGitRemote(config) == IF config = "github" THEN "origin" ELSE "null"

\* x || dflt
OrDefault(x, dflt) == IF Falsy(x) THEN dflt ELSE x

\* A default parameter value: it applies to undefined alone.
ParamDefault(x, dflt) == IF x = "undefined" THEN dflt ELSE x

CreateLocalSource(blocksPath, git) ==
    [status |-> "ok", type |-> "local", root |-> blocksPath, branch |-> "",
     error |-> "", git |-> git]

CreateGitHubSource(branch, blocksPath) ==
    [status |-> "ok", type |-> "github", root |-> ParamDefault(blocksPath, "blocks"),
     branch |-> ParamDefault(branch, "main"), error |-> "", git |-> ""]

Thrown(message) ==
    [status |-> "error", type |-> "", root |-> "", branch |-> "", error |-> message, git |-> ""]

ResolveBlockSource(a, hasBlocks, config) ==
    IF a.github.given
    THEN CreateGitHubSource(OrDefault(a.github.branch, "main"),
                            OrDefault(a.github.blocksPath, "blocks"))
    ELSE IF a.useLocal
    THEN LET blocksPath == OrDefault(a.localBlocksPath, DetectLocalBlocksDir(hasBlocks))
         IN  IF Falsy(blocksPath) THEN Thrown("Local blocks directory not found")
             ELSE CreateLocalSource(blocksPath, DetectGitRemote(config))
    ELSE LET localPath == DetectLocalBlocksDir(hasBlocks)
         IN  IF ~Falsy(localPath)
             THEN CreateLocalSource(localPath, DetectGitRemote(config))
             ELSE Thrown("No block source specified")

CreateBlockSource(a, hasBlocks) ==
    IF a.useLocal \/ ~Falsy(a.localBlocksPath)
    THEN LET blocksPath ==
                 OrDefault(a.localBlocksPath, DetectLocalBlocksDirUnawaited(hasBlocks))
         IN  IF Falsy(blocksPath) THEN Thrown("No local blocks directory found")
             ELSE CreateLocalSource(blocksPath, "")
    ELSE IF a.github.given
    THEN CreateGitHubSource(a.github.branch, a.github.blocksPath)
    ELSE LET localPath == DetectLocalBlocksDirUnawaited(hasBlocks)
         IN  IF ~Falsy(localPath) THEN CreateLocalSource(localPath, "")
             ELSE Thrown("No block source configured")

InitResolve ==
    /\ IdleParse
    /\ IdleExtract
    /\ IdleReads
    /\ IdleDoc
    /\ IdleTemplate
    /\ IdleAnalyze
    /\ IdleSheets
    /\ args \in SourceArgs
    /\ cwdHasBlocks \in BOOLEAN
    /\ gitConfig \in {"unreadable", "other", "github"}
    /\ resolver = ""
    /\ resolved = Unresolved
    /\ pcResolve = "start"

CallResolveBlockSource ==
    /\ pcResolve = "start"
    /\ resolver' = "resolveBlockSource"
    /\ resolved' = ResolveBlockSource(args, cwdHasBlocks, gitConfig)
    /\ pcResolve' = "done"
    /\ UNCHANGED <<args, cwdHasBlocks, gitConfig, parseVars, extractVars, readVars, docVars, templateVars, analyzeVars, sheetVars>>

CallCreateBlockSource ==
    /\ pcResolve = "start"
    /\ resolver' = "createBlockSource"
    /\ resolved' = CreateBlockSource(args, cwdHasBlocks)
    /\ pcResolve' = "done"
    /\ UNCHANGED <<args, cwdHasBlocks, gitConfig, parseVars, extractVars, readVars, docVars, templateVars, analyzeVars, sheetVars>>

NextResolve == CallResolveBlockSource \/ CallCreateBlockSource

SpecResolve == InitResolve /\ [][NextResolve]_vars

\* --------------------------- createLocalSource, createGitHubSource, the tools

\* The sources resolution can return: their type and the root they read under.
ResolvableSources ==
    LET all == {ResolveBlockSource(a, h, "other") : a \in SourceArgs, h \in BOOLEAN}
                 \cup {CreateBlockSource(a, h) : a \in SourceArgs, h \in BOOLEAN}
    IN  {[type |-> r.type, root |-> r.root] : r \in {x \in all : x.status = "ok"}}

ReadmeNames == <<"README.md", "readme.md", "README.MD">>

\* The reads of the file system or of the hosting API that can fail: the files
\* of the block asked for, any file of another block, the listing of the
\* blocks directory, the access check and the listing of the block's directory.
Reads ==
    {"js", "css", "README.md", "readme.md", "README.MD", "other", "readdir", "access",
     "entries"}

Entry(name, ext, type) == [name |-> name, ext |-> ext, type |-> type]

Environments ==
    [throws : SUBSET Reads,
     jsText : {"", "text"},
     dirs : { <<>>,
              <<Entry("cards", "", "dir"), Entry("notes.txt", "txt", "file")>>,
              <<Entry("cards", "", "dir"), Entry("hero", "", "dir")>> },
     entries : { <<Entry("cards.js", "js", "file"), Entry("README.md", "md", "file")>>,
                 <<Entry("cards.css", "css", "file"), Entry("lib.js", "js", "dir")>> }]

\* null, and a string, as getFileContent returns them.
Null == <<>>
Str(text) == <<text>>

\* !!content
Truthy(content) == content # Null /\ content[1] # ""

\* The underlying call throws: the environment makes it fail, or the source is
\* rooted at a Promise and path.join rejects it with a TypeError.
Throws(src, e, read) == src.root = "Promise" \/ read \in e.throws

\* The read behind the file fileName of the block's directory.
ReadOf(block, asked, fileName) == IF block = asked THEN fileName ELSE "other"

\* fs.readFile / ghGetFileContent when it does not throw.
FileText(e, read) == IF read = "js" THEN e.jsText ELSE "text"

Returned(value) == [threw |-> FALSE, value |-> value]

\* getFileContent without its try/catch: the failure reaches the caller.
GetFileContentUncaught(src, e, read) ==
    IF Throws(src, e, read) THEN [threw |-> TRUE, value |-> Null]
    ELSE Returned(Str(FileText(e, read)))

\* source.getFileContent(path), for both kinds of source
GetFileContent(src, e, read) ==
    IF Throws(src, e, read) THEN Returned(Null)
    ELSE Returned(Str(FileText(e, read)))

\* ghListDirectories: the directories of the blocks path.
GhListDirectories(e) ==
    SelectSeq(e.dirs, LAMBDA d : d.type = "dir")

\* source.listDirectories()
ListDirectories(src, e) ==
    IF Throws(src, e, "readdir") THEN Returned(<<>>)
    ELSE IF src.type = "local"
         THEN Returned(SelectSeq(e.dirs, LAMBDA d : d.type = "dir"))
         ELSE Returned(GhListDirectories(e))

\* source.fileExists(path)
FileExists(src, e) ==
    IF Throws(src, e, "access") THEN Returned(FALSE) ELSE Returned(TRUE)

\* source.listFiles(blockName): the local source filters on the name alone, the
\* remote one also on type 'file'.
ListFiles(src, e) ==
    IF Throws(src, e, "entries") THEN Returned(<<>>)
    ELSE IF src.type = "local"
         THEN Returned(SelectSeq(e.entries, LAMBDA f : f.ext \in {"js", "css"}))
         ELSE Returned(SelectSeq(e.entries,
                                 LAMBDA f : f.type = "file" /\ f.ext \in {"js", "css"}))

\* checkBlockFiles(source, blockName)
CheckBlockFiles(src, e, block, asked) ==
    LET js  == GetFileContent(src, e, ReadOf(block, asked, "js"))
        css == GetFileContent(src, e, ReadOf(block, asked, "css"))
    IN  [threw |-> js.threw \/ css.threw,
         value |-> [name |-> block, hasJS |-> Truthy(js.value),
                    hasCSS |-> Truthy(css.value), type |-> "dir"]]

\* listBlocks(source)
ListBlocks(src, e, asked) ==
    LET dirs   == ListDirectories(src, e)
        blocks == [i \in 1..Len(dirs.value) |->
                      CheckBlockFiles(src, e, dirs.value[i].name, asked)]
    IN  [threw |-> dirs.threw \/ \E i \in 1..Len(blocks) : blocks[i].threw,
         value |-> [i \in 1..Len(blocks) |-> blocks[i].value]]

\* tryGetReadme(source, blockName): the first README variant with content.
RECURSIVE TryGetReadme(_, _, _)
TryGetReadme(src, e, i) ==
    IF i > Len(ReadmeNames) THEN Returned(Null)
    ELSE LET content == GetFileContent(src, e, ReadmeNames[i])
         IN  IF content.threw THEN content
             ELSE IF Truthy(content.value) THEN content
             ELSE TryGetReadme(src, e, i + 1)

\* getBlockFiles(source, blockName)
GetBlockFiles(src, e, block) ==
    LET js     == GetFileContent(src, e, "js")
        css    == GetFileContent(src, e, "css")
        readme == TryGetReadme(src, e, 1)
    IN  [threw |-> js.threw \/ css.threw \/ readme.threw,
         value |-> [blockName |-> block, hasJS |-> Truthy(js.value),
                    hasCSS |-> Truthy(css.value), hasReadme |-> Truthy(readme.value),
                    jsContent |-> js.value, cssContent |-> css.value,
                    readmeContent |-> readme.value]]

\* analyzeBlock(source, blockName): the presence flags; the fields read out of
\* the script and stylesheet text stay at their initial values when the file is
\* absent.
AnalyzeBlock(src, e, block) ==
    LET js  == GetFileContent(src, e, "js")
        css == GetFileContent(src, e, "css")
    IN  [threw |-> js.threw \/ css.threw,
         value |-> [blockName |-> block, hasJS |-> Truthy(js.value),
                    hasCSS |-> Truthy(css.value)]]

InitReads ==
    /\ IdleParse
    /\ IdleExtract
    /\ IdleResolve
    /\ IdleDoc
    /\ IdleTemplate
    /\ IdleAnalyze
    /\ IdleSheets
    /\ source \in ResolvableSources
    /\ env \in Environments
    /\ readResult = NoResult
    /\ pcReads = "ready"

Finish(op, file, r) ==
    /\ pcReads = "ready"
    /\ readResult' = [op |-> op, file |-> file, threw |-> r.threw, value |-> r.value]
    /\ pcReads' = "done"
    /\ UNCHANGED <<source, env, parseVars, extractVars, resolveVars, docVars, templateVars, analyzeVars, sheetVars>>

CallGetFileContent ==
    \E read \in {"js", "css", "README.md", "readme.md", "README.MD"} :
        Finish("getFileContent", read, GetFileContent(source, env, read))

CallListDirectories == Finish("listDirectories", "", ListDirectories(source, env))

CallFileExists == Finish("fileExists", "", FileExists(source, env))

CallListFiles == Finish("listFiles", "", ListFiles(source, env))

\* da_blocks_list, da_blocks_get_files and da_blocks_analyze behind their
\* resolveBlockSource call.
ToolListBlocks == Finish("listBlocks", "", ListBlocks(source, env, "cards"))

ToolGetBlockFiles == Finish("getBlockFiles", "", GetBlockFiles(source, env, "cards"))

ToolAnalyzeBlock == Finish("analyzeBlock", "", AnalyzeBlock(source, env, "cards"))

NextReads ==
    \/ CallGetFileContent
    \/ CallListDirectories
    \/ CallFileExists
    \/ CallListFiles
    \/ ToolListBlocks
    \/ ToolGetBlockFiles
    \/ ToolAnalyzeBlock

SpecReads == InitReads /\ [][NextReads]_vars

\* ------------------------------------- createBlockDoc, checkBlockDocExists

\* The characters error messages are made of.
MsgChars == {"4", "0", "x"}

Messages == UNION {[1..n -> MsgChars] : n \in 0..MaxMsgLen}

\* What daAdminRequest / uploadHTML throws: an Error with a message, or a value
\* without a message property.
UpstreamErrors ==
    {[kind |-> "upstream", hasMessage |-> TRUE, message |-> m] : m \in Messages}
        \cup {[kind |-> "upstream", hasMessage |-> FALSE, message |-> <<>>]}

\* validateBlockName(blockName): {valid, error}.
ValidateBlockName(block) ==
    [valid |-> block.valid,
     error |-> [kind |-> "validation", hasMessage |-> TRUE, message |-> <<>>]]

\* message.includes('404') reading the message's first characters alone.
Includes404AtStart(error) ==
    /\ error.hasMessage
    /\ Len(error.message) >= 3
    /\ error.message[1] = "4" /\ error.message[2] = "0" /\ error.message[3] = "4"

\* error.message?.includes('404')
Includes404(error) ==
    /\ error.hasMessage
    /\ \E i \in 1..(Len(error.message) - 2) :
           error.message[i] = "4" /\ error.message[i + 1] = "0" /\ error.message[i + 2] = "4"

InitDoc ==
    /\ IdleParse
    /\ IdleExtract
    /\ IdleResolve
    /\ IdleReads
    /\ IdleTemplate
    /\ IdleAnalyze
    /\ IdleSheets
    /\ docBlock \in {[name |-> "cards", valid |-> TRUE], [name |-> "../cards", valid |-> FALSE]}
    /\ readResponse \in {[ok |-> TRUE, error |-> NoError]}
                            \cup {[ok |-> FALSE, error |-> e] : e \in UpstreamErrors}
    /\ uploadResponse \in {[ok |-> TRUE, error |-> NoError],
                           [ok |-> FALSE,
                            error |-> [kind |-> "upstream", hasMessage |-> TRUE,
                                       message |-> <<"x">>]]}
    /\ requests = <<>>
    /\ docResult = NoDocResult
    /\ pcDoc = "start"

DocThrew(op, error) ==
    [op |-> op, status |-> "threw", exists |-> FALSE, created |-> FALSE, error |-> error]

\* createBlockDoc uploading before it looks at the validation.
CreateBlockDocUploadFirst ==
    /\ pcDoc = "start"
    /\ requests' = Append(requests, "uploadHTML")
    /\ LET validation == ValidateBlockName(docBlock)
       IN  docResult' =
               IF ~uploadResponse.ok THEN DocThrew("createBlockDoc", uploadResponse.error)
               ELSE IF ~validation.valid THEN DocThrew("createBlockDoc", validation.error)
               ELSE [op |-> "createBlockDoc", status |-> "returned", exists |-> FALSE,
                     created |-> TRUE, error |-> NoError]
    /\ pcDoc' = "done"
    /\ UNCHANGED <<docBlock, readResponse, uploadResponse>>
    /\ UNCHANGED <<parseVars, extractVars, resolveVars, readVars, templateVars, analyzeVars, sheetVars>>

CreateBlockDoc ==
    /\ pcDoc = "start"
    /\ LET validation == ValidateBlockName(docBlock)
       IN  IF ~validation.valid
           THEN /\ docResult' = DocThrew("createBlockDoc", validation.error)
                /\ UNCHANGED requests
           ELSE /\ requests' = Append(requests, "uploadHTML")
                /\ docResult' =
                       IF uploadResponse.ok
                       THEN [op |-> "createBlockDoc", status |-> "returned", exists |-> FALSE,
                             created |-> TRUE, error |-> NoError]
                       ELSE DocThrew("createBlockDoc", uploadResponse.error)
    /\ pcDoc' = "done"
    /\ UNCHANGED <<docBlock, readResponse, uploadResponse>>
    /\ UNCHANGED <<parseVars, extractVars, resolveVars, readVars, templateVars, analyzeVars, sheetVars>>

CheckBlockDocExists ==
    /\ pcDoc = "start"
    /\ LET validation == ValidateBlockName(docBlock)
       IN  IF ~validation.valid
           THEN /\ docResult' = DocThrew("checkBlockDocExists", validation.error)
                /\ UNCHANGED requests
           ELSE /\ requests' = Append(requests, "daAdminRequest")
                /\ docResult' =
                       IF readResponse.ok
                       THEN [op |-> "checkBlockDocExists", status |-> "returned",
                             exists |-> TRUE, created |-> FALSE, error |-> NoError]
                       ELSE IF Includes404(readResponse.error)
                       THEN [op |-> "checkBlockDocExists", status |-> "returned",
                             exists |-> FALSE, created |-> FALSE, error |-> NoError]
                       ELSE DocThrew("checkBlockDocExists", readResponse.error)
    /\ pcDoc' = "done"
    /\ UNCHANGED <<docBlock, readResponse, uploadResponse>>
    /\ UNCHANGED <<parseVars, extractVars, resolveVars, readVars, templateVars, analyzeVars, sheetVars>>

NextDoc == CreateBlockDoc \/ CheckBlockDocExists

SpecDoc == InitDoc /\ [][NextDoc]_vars

\* ------------------------------ generateAutoDescription, generateBlockTemplate

\* Block names, as character sequences.
BlockNames == {<<"h", "e", "r", "o">>, <<"C", "t", "a">>, <<>>}

\* String.prototype.toUpperCase on one character.
ToUpperCase(c) ==
    CASE c = "h" -> "H" [] c = "e" -> "E" [] c = "r" -> "R" [] c = "o" -> "O"
      [] c = "t" -> "T" [] c = "a" -> "A" [] OTHER -> c

\* blockName.charAt(0).toUpperCase() + blockName.slice(1)
Capitalize(name) ==
    IF name = <<>> THEN <<>> ELSE <<ToUpperCase(name[1])>> \o Tail(name)

VariantNames == {"", "dark", "light"}

StructureFlags == {"hasMultipleItems", "hasImage", "hasHeading", "hasButton"}

\* The per-variant content mapping: each key absent or mapped to a string.
ContentMaps ==
    UNION {[keys -> {"", "A", "B"}] : keys \in SUBSET {"", "dark"}}

TemplateArgs ==
    [blockName : BlockNames,
     description : {"undefined", "null", "", "Custom"},
     variants : {"undefined", "null", "array"},
     list : UNION {[1..n -> VariantNames] : n \in 0..MaxVariants},
     structure : SUBSET StructureFlags,
     hasContent : BOOLEAN,
     content : ContentMaps]

\* variants?.length > 0
HasVariants(a) == a.variants = "array" /\ Len(a.list) > 0

\* parts.join(sep), a text being the sequence of its pieces
RECURSIVE Join(_, _)
Join(parts, sep) ==
    IF parts = <<>> THEN <<>>
    ELSE IF Len(parts) = 1 THEN <<parts[1]>>
    ELSE <<parts[1], sep>> \o Join(Tail(parts), sep)

\* generateAutoDescription falling back to the block's name whenever the
\* structure flags yield no part, the variants left out of the test.
GenerateAutoDescriptionFlagsOnly(a) ==
    LET content ==
            (IF "hasImage" \in a.structure THEN <<"images">> ELSE <<>>)
         \o (IF "hasHeading" \in a.structure THEN <<"headings">> ELSE <<>>)
         \o (IF "hasButton" \in a.structure THEN <<"buttons">> ELSE <<>>)
        flagged ==
            (IF "hasMultipleItems" \in a.structure THEN << <<"Multi-item layout">> >> ELSE <<>>)
         \o (IF Len(content) > 0 THEN << <<"with ">> \o Join(content, ", ") >> ELSE <<>>)
        parts ==
            flagged
         \o (IF HasVariants(a) THEN << <<"Variants: ">> \o Join(a.list, ", ") >> ELSE <<>>)
    IN  IF Len(flagged) > 0 THEN Join(parts, <<" ">>)
        ELSE <<Capitalize(a.blockName), " block">>

\* generateAutoDescription(blockName, structure, variants)
GenerateAutoDescription(a) ==
    LET content ==
            (IF "hasImage" \in a.structure THEN <<"images">> ELSE <<>>)
         \o (IF "hasHeading" \in a.structure THEN <<"headings">> ELSE <<>>)
         \o (IF "hasButton" \in a.structure THEN <<"buttons">> ELSE <<>>)
        parts ==
            (IF "hasMultipleItems" \in a.structure THEN << <<"Multi-item layout">> >> ELSE <<>>)
         \o (IF Len(content) > 0 THEN << <<"with ">> \o Join(content, ", ") >> ELSE <<>>)
         \o (IF HasVariants(a) THEN << <<"Variants: ">> \o Join(a.list, ", ") >> ELSE <<>>)
    IN  IF Len(parts) > 0 THEN Join(parts, <<" ">>)
        ELSE <<Capitalize(a.blockName), " block">>

\* blockContent?.[variant]: undefined for a null mapping and for a missing key.
Lookup(a, variant) ==
    IF a.hasContent /\ variant \in DOMAIN a.content THEN a.content[variant] ELSE "undefined"

\* The variant's own entry or nothing: the base-variant fallback left out.
SectionContentOwnOnly(a, variant) ==
    IF ~Falsy(Lookup(a, variant)) THEN Lookup(a, variant) ELSE ""

\* blockContent?.[variant] || blockContent?.[''] || ''
SectionContent(a, variant) ==
    IF ~Falsy(Lookup(a, variant)) THEN Lookup(a, variant)
    ELSE IF ~Falsy(Lookup(a, "")) THEN Lookup(a, "")
    ELSE ""

\* variants?.length > 0 ? variants : ['']
VariantsToGenerate(a) == IF HasVariants(a) THEN a.list ELSE <<"">>

\* One element of blockSections: the name cell, the description cell, the class
\* attribute of the body and the body's content.
Section(a, variant) ==
    [name |-> [block |-> Capitalize(a.blockName), variant |-> variant],
     description |-> IF ~Falsy(a.description) THEN <<a.description>>
                     ELSE GenerateAutoDescription(a),
     class |-> [block |-> a.blockName, variant |-> variant],
     content |-> SectionContent(a, variant)]

GenerateBlockTemplate(a) ==
    LET vs == VariantsToGenerate(a)
    IN  [i \in 1..Len(vs) |-> Section(a, vs[i])]

InitTemplate ==
    /\ IdleParse
    /\ IdleExtract
    /\ IdleResolve
    /\ IdleReads
    /\ IdleDoc
    /\ IdleAnalyze
    /\ IdleSheets
    /\ tplArgs \in {a \in TemplateArgs :
                      /\ a.variants # "array" => a.list = <<>>
                      /\ ~a.hasContent => a.content = << >>}
    /\ sections = <<>>
    /\ pcTemplate = "start"

CallGenerateBlockTemplate ==
    /\ pcTemplate = "start"
    /\ sections' = GenerateBlockTemplate(tplArgs)
    /\ pcTemplate' = "done"
    /\ UNCHANGED <<tplArgs, parseVars, extractVars, resolveVars, readVars, docVars, analyzeVars, sheetVars>>

NextTemplate == CallGenerateBlockTemplate

SpecTemplate == InitTemplate /\ [][NextTemplate]_vars

\* ------------------------------------------------ analyzeBlock, stylesheet

\* Stylesheet text is a sequence of pieces: a dot, a hyphen, a run of other
\* characters (spaces, braces, commas) and the words, runs of letters.  A name
\* in the text is the sequence of the pieces it is made of.
CssWords == {"cards", "wide"}

CssTokens == {".", "-", " "} \cup CssWords

Stylesheets == UNION {[1..n -> CssTokens] : n \in 0..MaxCss}

\* What source.getFileContent returned for the stylesheet: null or its text.
CssContents ==
    {[isNull |-> TRUE, text |-> <<>>]} \cup {[isNull |-> FALSE, text |-> s] : s \in Stylesheets}

\* \w
IsWordChar(t) == t \in CssWords

\* (\w+) from position i: the longest run of word characters.
RECURSIVE WordRun(_, _)
WordRun(text, i) ==
    IF i <= Len(text) /\ IsWordChar(text[i]) THEN <<text[i]>> \o WordRun(text, i + 1)
    ELSE <<>>

\* variantPattern.exec from position from: the index of the match of
\* \.NAME\.(\w+), 0 for none.
ExecVariantPattern(text, from, name) ==
    LET hits == {i \in from..(Len(text) - 3) :
                    /\ text[i] = "."
                    /\ text[i + 1] = name
                    /\ text[i + 2] = "."
                    /\ IsWordChar(text[i + 3])}
    IN  IF hits = {} THEN 0 ELSE Min(hits)

\* variants.add(v), a Set in insertion order
SetAdd(set, v) ==
    IF \E i \in 1..Len(set) : set[i] = v THEN set ELSE Append(set, v)

\* for (const match of cssContent.matchAll(variantPattern))
\*     if (match[1] !== blockName) variants.add(match[1])
RECURSIVE CollectVariants(_, _, _, _)
CollectVariants(text, from, name, variants) ==
    LET m == ExecVariantPattern(text, from, name)
    IN  IF m = 0 THEN variants
        ELSE LET v == WordRun(text, m + 3)
             IN  CollectVariants(text, m + 3 + Len(v), name,
                                 IF v # <<name>> THEN SetAdd(variants, v) ELSE variants)

NoAnalysis == [status |-> "none", hasCSS |-> FALSE, variants |-> <<>>]

InitAnalyze ==
    /\ IdleParse
    /\ IdleExtract
    /\ IdleResolve
    /\ IdleReads
    /\ IdleDoc
    /\ IdleTemplate
    /\ IdleSheets
    /\ cssContent \in CssContents
    /\ analyzedBlock \in CssWords
    /\ analysis = NoAnalysis
    /\ pcAnalyze = "start"

\* analyzeBlock from the stylesheet read on: result.hasCSS and result.variants.
\* result.structure is computed from the same text and does not enter the
\* variants.
AnalyzeStylesheet ==
    /\ pcAnalyze = "start"
    /\ analysis' =
           IF ~cssContent.isNull /\ cssContent.text # <<>>
           THEN [status |-> "returned", hasCSS |-> TRUE,
                 variants |-> CollectVariants(cssContent.text, 1, analyzedBlock, <<>>)]
           ELSE [status |-> "returned", hasCSS |-> FALSE, variants |-> <<>>]
    /\ pcAnalyze' = "done"
    /\ UNCHANGED <<cssContent, analyzedBlock>>
    /\ UNCHANGED <<parseVars, extractVars, resolveVars, readVars, docVars, templateVars, sheetVars>>

NextAnalyze == AnalyzeStylesheet

SpecAnalyze == InitAnalyze /\ [][NextAnalyze]_vars

\* ------------------------------- sheet store, library registration, handlers

\* Placeholder keys and texts.
Keys == {"a", "b"}

Texts == {"1", "2"}

\* args.configPath: the schema's default '' or a folder.
ConfigPaths == {"", "/cfg"}

\* configPath.startsWith('/') ? configPath.slice(1) : configPath
CleanPath(configPath) == IF configPath = "/cfg" THEN "cfg" ELSE configPath

\* getPlaceholdersPath(configPath): the path, as its segments.
GetPlaceholdersPath(configPath) ==
    IF configPath = "" THEN <<"placeholders">>
    ELSE <<CleanPath(configPath), "placeholders">>

SheetPaths == {GetPlaceholdersPath(c) : c \in ConfigPaths}

\* createPlaceholderEntry(item)
CreatePlaceholderEntry(item) == [key |-> item.key, value |-> item.text]

\* `${buildContentUrl(org, repo, getPlaceholdersPath(configPath))}.json`
ConfigUrl(configPath) == [path |-> GetPlaceholdersPath(configPath), ext |-> "json"]

\* The records of a sheet whose key field holds keyValue, by position.
Matching(records, keyField, keyValue) ==
    {i \in 1..Len(records) : records[i][keyField] = keyValue}

\* listSheetItems: the stored records, none when the document does not exist.
ListSheetItems(records) == records

\* addSheetItem: the record replaces the first one sharing its key, at that
\* record's position, else it is appended.
AddSheetItem(records, item, keyField) ==
    LET hits == Matching(records, keyField, item[keyField])
    IN  IF hits # {} THEN [records EXCEPT ![Min(hits)] = item]
        ELSE Append(records, item)

\* removeSheetItem: the first record matching the key is deleted; removed tells
\* whether there was one.
RemoveSheetItem(records, keyValue, keyField) ==
    LET hits == Matching(records, keyField, keyValue)
    IN  IF hits = {} THEN [records |-> records, removed |-> FALSE]
        ELSE [records |-> SubSeq(records, 1, Min(hits) - 1)
                              \o SubSeq(records, Min(hits) + 1, Len(records)),
              removed |-> TRUE]

\* setupSheetItems: the upsert of each candidate in input order, then one
\* rewrite of the document.
RECURSIVE SetupSheetItems(_, _, _)
SetupSheetItems(records, entries, keyField) ==
    IF entries = <<>> THEN records
    ELSE SetupSheetItems(AddSheetItem(records, Head(entries), keyField),
                         Tail(entries), keyField)

NoLibrary == [exists |-> FALSE, entries |-> <<>>]

NoRegistration ==
    [registered |-> FALSE, existed |-> FALSE, createdSheet |-> FALSE, libraryEntryCount |-> 0]

\* registerLibraryType(org, repo, type, url): an entry for the type is appended
\* to the registration sheet unless one is there; the report tells whether it
\* existed, whether the sheet had to be created, and the entry count.
RegisterLibraryType(lib, type, url) ==
    LET existed == \E i \in 1..Len(lib.entries) : lib.entries[i].title = type
        entries == IF existed THEN lib.entries
                   ELSE Append(lib.entries, [title |-> type, path |-> url])
    IN  [library |-> [exists |-> TRUE, entries |-> entries],
         result |-> [registered |-> TRUE, existed |-> existed,
                     createdSheet |-> ~lib.exists, libraryEntryCount |-> Len(entries)]]

\* What one step of a handler leaves behind: the sheets, the registration
\* sheet, the handler as it is suspended at its next await (none when it has
\* ended), the calls it has issued, the registration's report and its result
\* so far.
Outcome(sh, lib, flight, log, reg, result) ==
    [sheets |-> sh, library |-> lib, flight |-> flight, log |-> log, reg |-> reg,
     result |-> result]

SheetThrew(at) == [NoSheetResult EXCEPT !.status = "threw", !.failedAt = at]

\* The handler is suspended at an await.
Pending == [NoSheetResult EXCEPT !.status = "pending"]

\* A handler suspended at an await: its arguments, the store request whose
\* answer it awaits ("sheetWrite", "libraryRead" or "libraryWrite"), the
\* records its sheet operation holds in memory to write, and what
\* registerLibraryType made of the registration sheet it read.  rewritten
\* records that the placeholder sheet has changed since the handler's own write.
Suspended(a, awaiting, records, reg) ==
    [op |-> a.op, configPath |-> a.configPath, key |-> a.key, text |-> a.text,
     placeholders |-> a.placeholders, awaiting |-> awaiting, records |-> records,
     reg |-> reg, rewritten |-> FALSE]

NotRead == [library |-> NoLibrary, result |-> NoRegistration]

\* The step a handler has just taken.
StepOf(c, step) ==
    [op |-> c.op, step |-> step, configPath |-> c.configPath, key |-> c.key, text |-> c.text,
     placeholders |-> c.placeholders, rewritten |-> c.rewritten]

SheetCallName(op) ==
    CASE op = "list" -> "listSheetItems"
      [] op = "add" -> "addSheetItem"
      [] op = "remove" -> "removeSheetItem"
      [] OTHER -> "setupSheetItems"

SheetCallOf(name, configPath) == [call |-> name, path |-> GetPlaceholdersPath(configPath)]

RegisterCallOf(configPath) == [call |-> "registerLibraryType", path |-> ConfigUrl(configPath).path]

\* The calls a handler has issued: its sheet call and, once that has
\* resolved, registerLibraryType.
IssuedCalls(c, registering) ==
    IF registering
    THEN <<SheetCallOf(SheetCallName(c.op), c.configPath), RegisterCallOf(c.configPath)>>
    ELSE <<SheetCallOf(SheetCallName(c.op), c.configPath)>>

\* The store's answers to a write: it stores the document and says so, it
\* refuses the write, or it stores the document and the answer is a failure.
WriteFates == {"ok", "refused", "lost"}

\* The handler of da_library_placeholders_list: listSheetItems is one read.
ListPlaceholdersHandler(sh, lib, a, sheetOk) ==
    LET path == GetPlaceholdersPath(a.configPath)
    IN  IF ~sheetOk
        THEN Outcome(sh, lib, EmptyBag, IssuedCalls(a, FALSE), NoRegistration, SheetThrew("sheet"))
        ELSE Outcome(sh, lib, EmptyBag, IssuedCalls(a, FALSE), NoRegistration,
                     [NoSheetResult EXCEPT !.status = "returned",
                                           !.totalPlaceholders = Len(ListSheetItems(sh[path])),
                                           !.placeholders = ListSheetItems(sh[path])])

\* The handler of da_library_add_placeholder from its call to the answer to
\* addSheetItem's read of the sheet: the upsert is made on the records read.
AddPlaceholderHandler(sh, lib, a, readOk) ==
    LET path == GetPlaceholdersPath(a.configPath)
        held == AddSheetItem(sh[path], CreatePlaceholderEntry(a), "key")
    IN  IF ~readOk
        THEN Outcome(sh, lib, EmptyBag, IssuedCalls(a, FALSE), NoRegistration, SheetThrew("sheet"))
        ELSE Outcome(sh, lib, SetToBag({Suspended(a, "sheetWrite", held, NotRead)}),
                     IssuedCalls(a, FALSE), NoRegistration, Pending)

\* The handler of da_library_placeholders_remove naming the value field as the
\* key field.
RemovePlaceholderHandlerKeyedByValue(sh, lib, a, readOk) ==
    LET path == GetPlaceholdersPath(a.configPath)
        r    == RemoveSheetItem(sh[path], a.key, "value")
    IN  IF ~readOk
        THEN Outcome(sh, lib, EmptyBag, IssuedCalls(a, FALSE), NoRegistration, SheetThrew("sheet"))
        ELSE IF ~r.removed
        THEN Outcome(sh, lib, EmptyBag, IssuedCalls(a, FALSE), NoRegistration,
                     [NoSheetResult EXCEPT !.status = "returned", !.removed = FALSE])
        ELSE Outcome(sh, lib, SetToBag({Suspended(a, "sheetWrite", r.records, NotRead)}),
                     IssuedCalls(a, FALSE), NoRegistration, Pending)

\* The handler of da_library_placeholders_remove from its call to the answer
\* to removeSheetItem's read of the sheet: with no record to remove it returns
\* and nothing is written.
RemovePlaceholderHandler(sh, lib, a, readOk) ==
    LET path == GetPlaceholdersPath(a.configPath)
        r    == RemoveSheetItem(sh[path], a.key, "key")
    IN  IF ~readOk
        THEN Outcome(sh, lib, EmptyBag, IssuedCalls(a, FALSE), NoRegistration, SheetThrew("sheet"))
        ELSE IF ~r.removed
        THEN Outcome(sh, lib, EmptyBag, IssuedCalls(a, FALSE), NoRegistration,
                     [NoSheetResult EXCEPT !.status = "returned", !.removed = FALSE])
        ELSE Outcome(sh, lib, SetToBag({Suspended(a, "sheetWrite", r.records, NotRead)}),
                     IssuedCalls(a, FALSE), NoRegistration, Pending)

\* The handler of da_library_setup_placeholders naming the value field as the
\* key field.
SetupPlaceholdersHandlerKeyedByValue(sh, lib, a, readOk) ==
    LET path    == GetPlaceholdersPath(a.configPath)
        entries == [i \in 1..Len(a.placeholders) |-> CreatePlaceholderEntry(a.placeholders[i])]
        held    == SetupSheetItems(sh[path], entries, "value")
    IN  IF ~readOk
        THEN Outcome(sh, lib, EmptyBag, IssuedCalls(a, FALSE), NoRegistration, SheetThrew("sheet"))
        ELSE Outcome(sh, lib, SetToBag({Suspended(a, "sheetWrite", held, NotRead)}),
                     IssuedCalls(a, FALSE), NoRegistration, Pending)

\* The handler of da_library_setup_placeholders from its call to the answer to
\* setupSheetItems' read of the sheet.
SetupPlaceholdersHandler(sh, lib, a, readOk) ==
    LET path    == GetPlaceholdersPath(a.configPath)
        entries == [i \in 1..Len(a.placeholders) |-> CreatePlaceholderEntry(a.placeholders[i])]
        held    == SetupSheetItems(sh[path], entries, "key")
    IN  IF ~readOk
        THEN Outcome(sh, lib, EmptyBag, IssuedCalls(a, FALSE), NoRegistration, SheetThrew("sheet"))
        ELSE Outcome(sh, lib, SetToBag({Suspended(a, "sheetWrite", held, NotRead)}),
                     IssuedCalls(a, FALSE), NoRegistration, Pending)

\* A handler going on to the registration whatever the answer to its sheet
\* write, as when the sheet call is not awaited.
SheetWrittenNotAwaited(sh, lib, c, fate) ==
    LET path   == GetPlaceholdersPath(c.configPath)
        stored == IF fate = "refused" THEN sh ELSE [sh EXCEPT ![path] = c.records]
    IN  IF c.op = "remove"
        THEN Outcome(stored, lib, EmptyBag, IssuedCalls(c, FALSE), NoRegistration,
                     [NoSheetResult EXCEPT !.status = "returned", !.removed = TRUE])
        ELSE Outcome(stored, lib, SetToBag({Suspended(c, "libraryRead", <<>>, NotRead)}),
                     IssuedCalls(c, TRUE), NoRegistration, Pending)

\* A handler from the answer to the write of its sheet operation on: a failure
\* ends it; on success the remove handler returns, and the add and batch-setup
\* handlers call registerLibraryType and await it.
SheetWritten(sh, lib, c, fate) ==
    LET path   == GetPlaceholdersPath(c.configPath)
        stored == IF fate = "refused" THEN sh ELSE [sh EXCEPT ![path] = c.records]
    IN  IF fate # "ok"
        THEN Outcome(stored, lib, EmptyBag, IssuedCalls(c, FALSE), NoRegistration,
                     SheetThrew("sheet"))
        ELSE IF c.op = "remove"
        THEN Outcome(stored, lib, EmptyBag, IssuedCalls(c, FALSE), NoRegistration,
                     [NoSheetResult EXCEPT !.status = "returned", !.removed = TRUE])
        ELSE Outcome(stored, lib, SetToBag({Suspended(c, "libraryRead", <<>>, NotRead)}),
                     IssuedCalls(c, TRUE), NoRegistration, Pending)

\* The result of da_library_add_placeholder reporting, as alreadyRegistered,
\* that the registration sheet was not created by the call.
AddPlaceholderResultSheetExisted(reg) ==
    [NoSheetResult EXCEPT !.status = "returned",
                          !.registered = reg.registered,
                          !.alreadyRegistered = ~reg.createdSheet]

\* The result of da_library_add_placeholder, from registerLibraryType's report.
AddPlaceholderResult(reg) ==
    [NoSheetResult EXCEPT !.status = "returned",
                          !.registered = reg.registered,
                          !.alreadyRegistered = reg.existed]

\* The result of da_library_setup_placeholders, from registerLibraryType's
\* report.
SetupPlaceholdersResult(reg) ==
    [NoSheetResult EXCEPT !.status = "returned",
                          !.registered = reg.registered,
                          !.librarySheet = [existed |-> ~reg.createdSheet,
                                            entryCount |-> reg.libraryEntryCount]]

HandlerResult(c, reg) ==
    IF c.op = "add" THEN AddPlaceholderResult(reg) ELSE SetupPlaceholdersResult(reg)

\* A handler from the answer to registerLibraryType's read of the
\* registration sheet on: with the type's entry there the registration
\* reports it and the handler returns, else the sheet with the entry appended
\* is written.
LibraryRead(sh, lib, c, readOk) ==
    LET reg == RegisterLibraryType(lib, "Placeholders", ConfigUrl(c.configPath))
    IN  IF ~readOk
        THEN Outcome(sh, lib, EmptyBag, IssuedCalls(c, TRUE), NoRegistration,
                     SheetThrew("register"))
        ELSE IF reg.result.existed
        THEN Outcome(sh, lib, EmptyBag, IssuedCalls(c, TRUE), reg.result,
                     HandlerResult(c, reg.result))
        ELSE Outcome(sh, lib,
                     SetToBag({[Suspended(c, "libraryWrite", <<>>, reg)
                                   EXCEPT !.rewritten = c.rewritten]}),
                     IssuedCalls(c, TRUE), NoRegistration, Pending)

\* A handler from the answer to registerLibraryType's write of the
\* registration sheet on.
LibraryWritten(sh, lib, c, fate) ==
    LET stored == IF fate = "refused" THEN lib ELSE c.reg.library
    IN  IF fate # "ok"
        THEN Outcome(sh, stored, EmptyBag, IssuedCalls(c, TRUE), NoRegistration,
                     SheetThrew("register"))
        ELSE Outcome(sh, stored, EmptyBag, IssuedCalls(c, TRUE), c.reg.result,
                     HandlerResult(c, c.reg.result))

\* The placeholders of a batch.
Items == [key : Keys, text : Texts]

Batches == UNION {[1..n -> Items] : n \in 0..MaxBatch}

\* The tool calls of a run share their configPath: the default one, with no
\* registration sheet before the first call, or a configured one, with a
\* registration sheet that holds the entry of another library type.
InitSheets ==
    /\ IdleParse
    /\ IdleExtract
    /\ IdleResolve
    /\ IdleReads
    /\ IdleDoc
    /\ IdleTemplate
    /\ IdleAnalyze
    /\ sheetConfigPath \in ConfigPaths
    /\ sheets = [p \in SheetPaths |-> <<>>]
    /\ library = IF sheetConfigPath = "" THEN NoLibrary
                 ELSE [exists |-> TRUE,
                       entries |-> <<[title |-> "Blocks",
                                      path |-> [path |-> <<"library", "blocks">>,
                                                ext |-> "json"]]>>]
    /\ inFlight = EmptyBag
    /\ sheetBefore = sheets
    /\ libraryBefore = library
    /\ sheetCall = NoCall
    /\ sheetLog = <<>>
    /\ regResult = NoRegistration
    /\ sheetResult = NoSheetResult
    /\ pcSheet = "ready"

\* A handler suspended after its own sheet write sees the sheet change.
SheetRewritten(c) ==
    IF c.awaiting = "sheetWrite" THEN c ELSE [c EXCEPT !.rewritten = TRUE]

\* The store answers the request a handler awaits, and the handler runs on to
\* its next await or to its end.  The other handlers stay suspended.
Handle(step, others, out) ==
    /\ pcSheet = "ready"
    /\ sheetBefore' = sheets
    /\ libraryBefore' = library
    /\ sheetCall' = step
    /\ sheets' = out.sheets
    /\ library' = out.library
    /\ inFlight' = (IF out.sheets # sheets THEN BagOfAll(SheetRewritten, others) ELSE others)
                       (+) out.flight
    /\ sheetLog' = out.log
    /\ regResult' = out.reg
    /\ sheetResult' = out.result
    /\ UNCHANGED <<sheetConfigPath, pcSheet>>
    /\ UNCHANGED <<parseVars, extractVars, resolveVars, readVars, docVars, templateVars, analyzeVars>>

\* A tool call arrives and the first read of its handler is answered.
Called(a, out) == Handle(a, inFlight, out)

\* The request a suspended handler awaits is answered.
Answered(c, step, out) ==
    /\ BagIn(c, inFlight)
    /\ Handle(StepOf(c, step), inFlight (-) SetToBag({c}), out)

ArgsOf(op) == [NoCall EXCEPT !.op = op, !.step = "sheetRead", !.configPath = sheetConfigPath]

\* The tool calls of a client that awaits each call before it makes the next.
ToolListPlaceholders ==
    \E sheetOk \in BOOLEAN :
        /\ inFlight = EmptyBag
        /\ Called(ArgsOf("list"),
                  ListPlaceholdersHandler(sheets, library, ArgsOf("list"), sheetOk))

ToolAddPlaceholder ==
    \E k \in Keys, t \in Texts, readOk \in BOOLEAN :
        LET a == [ArgsOf("add") EXCEPT !.key = k, !.text = t]
        IN  /\ inFlight = EmptyBag
            /\ Called(a, AddPlaceholderHandler(sheets, library, a, readOk))

ToolRemovePlaceholder ==
    \E k \in Keys, readOk \in BOOLEAN :
        LET a == [ArgsOf("remove") EXCEPT !.key = k]
        IN  /\ inFlight = EmptyBag
            /\ Called(a, RemovePlaceholderHandler(sheets, library, a, readOk))

ToolSetupPlaceholders ==
    \E b \in Batches, readOk \in BOOLEAN :
        LET a == [ArgsOf("setup") EXCEPT !.placeholders = b]
        IN  /\ inFlight = EmptyBag
            /\ Called(a, SetupPlaceholdersHandler(sheets, library, a, readOk))

SheetWriteAnswered ==
    \E c \in BagToSet(inFlight), fate \in WriteFates :
        /\ c.awaiting = "sheetWrite"
        /\ Answered(c, "sheetWrite", SheetWritten(sheets, library, c, fate))

LibraryReadAnswered ==
    \E c \in BagToSet(inFlight), readOk \in BOOLEAN :
        /\ c.awaiting = "libraryRead"
        /\ Answered(c, "libraryRead", LibraryRead(sheets, library, c, readOk))

LibraryWriteAnswered ==
    \E c \in BagToSet(inFlight), fate \in WriteFates :
        /\ c.awaiting = "libraryWrite"
        /\ Answered(c, "libraryWrite", LibraryWritten(sheets, library, c, fate))

NextSheets ==
    \/ ToolListPlaceholders
    \/ ToolAddPlaceholder
    \/ ToolRemovePlaceholder
    \/ ToolSetupPlaceholders
    \/ SheetWriteAnswered
    \/ LibraryReadAnswered
    \/ LibraryWriteAnswered

SpecSheets == InitSheets /\ [][NextSheets]_vars

\* A sheet document as the store may hold it, whoever wrote it: any records,
\* two of them with the same key included.
StoredSheets == UNION {[1..n -> [key : Keys, value : Texts]] : n \in 0..MaxStored}

InitStoredSheets ==
    /\ IdleParse
    /\ IdleExtract
    /\ IdleResolve
    /\ IdleReads
    /\ IdleDoc
    /\ IdleTemplate
    /\ IdleAnalyze
    /\ sheetConfigPath \in ConfigPaths
    /\ \E s \in StoredSheets :
           sheets = [p \in SheetPaths |->
                        IF p = GetPlaceholdersPath(sheetConfigPath) THEN s ELSE <<>>]
    /\ library = NoLibrary
    /\ inFlight = EmptyBag
    /\ sheetBefore = sheets
    /\ libraryBefore = library
    /\ sheetCall = NoCall
    /\ sheetLog = <<>>
    /\ regResult = NoRegistration
    /\ sheetResult = NoSheetResult
    /\ pcSheet = "ready"

\* Listing and removing on a stored sheet.
NextStoredSheets ==
    \/ ToolListPlaceholders
    \/ ToolRemovePlaceholder
    \/ SheetWriteAnswered

SpecStoredSheets == InitStoredSheets /\ [][NextStoredSheets]_vars

\* --------------------------------------------------- tool calls in flight

\* The keys of the calls that overlap.
FlightKeys == {"a"}

\* The batches of the setup calls that overlap hold one text; the add calls
\* bring the other.
FlightBatches == UNION {[1..n -> [key : FlightKeys, text : {"1"}]] : n \in 0..MaxFlightBatch}

InitInFlight ==
    /\ IdleParse
    /\ IdleExtract
    /\ IdleResolve
    /\ IdleReads
    /\ IdleDoc
    /\ IdleTemplate
    /\ IdleAnalyze
    /\ sheetConfigPath = ""
    /\ sheets = [p \in SheetPaths |-> <<>>]
    /\ library = NoLibrary
    /\ inFlight = EmptyBag
    /\ sheetBefore = sheets
    /\ libraryBefore = library
    /\ sheetCall = NoCall
    /\ sheetLog = <<>>
    /\ regResult = NoRegistration
    /\ sheetResult = NoSheetResult
    /\ pcSheet = "ready"

\* The tool calls of clients that do not wait for one another: a call arrives
\* while handlers are suspended, and the store answers the requests in flight
\* in any order.
ArrivingListPlaceholders ==
    \E sheetOk \in BOOLEAN :
        /\ BagCardinality(inFlight) < MaxInFlight
        /\ Called(ArgsOf("list"),
                  ListPlaceholdersHandler(sheets, library, ArgsOf("list"), sheetOk))

ArrivingAddPlaceholder ==
    \E k \in FlightKeys, t \in Texts, readOk \in BOOLEAN :
        LET a == [ArgsOf("add") EXCEPT !.key = k, !.text = t]
        IN  /\ BagCardinality(inFlight) < MaxInFlight
            /\ Called(a, AddPlaceholderHandler(sheets, library, a, readOk))

ArrivingRemovePlaceholder ==
    \E k \in FlightKeys, readOk \in BOOLEAN :
        LET a == [ArgsOf("remove") EXCEPT !.key = k]
        IN  /\ BagCardinality(inFlight) < MaxInFlight
            /\ Called(a, RemovePlaceholderHandler(sheets, library, a, readOk))

ArrivingSetupPlaceholders ==
    \E b \in FlightBatches, readOk \in BOOLEAN :
        LET a == [ArgsOf("setup") EXCEPT !.placeholders = b]
        IN  /\ BagCardinality(inFlight) < MaxInFlight
            /\ Called(a, SetupPlaceholdersHandler(sheets, library, a, readOk))

NextInFlight ==
    \/ ArrivingListPlaceholders
    \/ ArrivingAddPlaceholder
    \/ ArrivingRemovePlaceholder
    \/ ArrivingSetupPlaceholders
    \/ SheetWriteAnswered
    \/ LibraryReadAnswered
    \/ LibraryWriteAnswered

SpecInFlight == InitInFlight /\ [][NextInFlight]_vars

\* ------------------------------------------------------- the whole model

\* One operation runs from its start state while the others stay idle.
Init ==
    \/ InitParse
    \/ InitExtract
    \/ InitResolve
    \/ InitReads
    \/ InitDoc
    \/ InitTemplate
    \/ InitAnalyze
    \/ InitSheets

Next ==
    \/ NextParse
    \/ NextExtract
    \/ NextResolve
    \/ NextReads
    \/ NextDoc
    \/ NextTemplate
    \/ NextAnalyze
    \/ NextSheets

Spec == Init /\ [][Next]_vars

\* --------------------------------------------- extractor claims (C1 - C4)

\* Depth after the token at index j of a scan that starts at depth 1 behind the
\* opening tag at index m: 1, plus the opens, minus the closes, in (m, j].
DepthAt(doc, m, j) ==
    1 + Cardinality({k \in (m + 1)..j : doc[k].kind = "open"})
      - Cardinality({k \in (m + 1)..j : doc[k].kind = "close"})

\* The first close tag behind m that brings the depth to 0, 0 when there is none.
BalancedClose(doc, m) ==
    LET zs == {j \in (m + 1)..Len(doc) : doc[j].kind = "close" /\ DepthAt(doc, m, j) = 0}
    IN  IF zs = {} THEN 0 ELSE Min(zs)

\* The tokens of doc strictly between a and b, without the whitespace at both ends.
TrimmedBetween(doc, a, b) ==
    LET solid == {k \in (a + 1)..(b - 1) : doc[k].kind # "ws"}
    IN  IF solid = {} THEN <<>>
        ELSE SubSeq(doc, Min(solid), CHOOSE k \in solid : \A l \in solid : l <= k)

\* The first class name of the tag that is neither the block name nor
\* block-name-hyphen-prefixed, the empty string when there is none.
FirstVariantName(tok, name) ==
    LET ok == {i \in 1..Len(tok.names) :
                 tok.names[i] # <<name>> /\ ~(Len(tok.names[i]) >= 2 /\ tok.names[i][1] = name)}
    IN  IF ok = {} THEN EmptyStr ELSE tok.names[Min(ok)]

\* The instances of variant v that have a balanced close, in document order.
BalancedInstances(doc, name, v) ==
    {m \in 1..Len(doc) :
        /\ OpenTagMatches(doc[m], name)
        /\ FindVariant(SplitClasses(doc[m]), name) = v
        /\ BalancedClose(doc, m) # 0}

\* C1: when parseBlockInstances returns, the content recorded for a variant is
\* the content of the first captured instance of that variant in document
\* order; no later instance of the variant has replaced it, also when the
\* first instance's content is the empty string.
C1_FirstInstanceWins ==
    pcParse = "done" =>
        \A v \in DOMAIN blockInstances :
            /\ BalancedInstances(html, blockName, v) # {}
            /\ LET m == Min(BalancedInstances(html, blockName, v))
               IN  blockInstances[v] = TrimmedBetween(html, m, BalancedClose(html, m))

\* C2: the content recorded for a matched opening tag is the trimmed substring
\* between the end of that tag and the first close tag at which the depth,
\* 1 at the tag, +1 per <div ...>, -1 per </div>, is back at 0: inner divs are
\* kept whole.
C2_BalancedContent ==
    lastMatch.outcome = "recorded" =>
        /\ lastMatch.close = BalancedClose(html, lastMatch.idx)
        /\ \A j \in (lastMatch.idx + 1)..(lastMatch.close - 1) :
               DepthAt(html, lastMatch.idx, j) > 0
        /\ blockInstances[lastMatch.variant]
              = TrimmedBetween(html, lastMatch.idx, lastMatch.close)

\* An instance with a nested inner div and surrounding whitespace was recorded.
C2_Witness ==
    /\ lastMatch.outcome = "recorded"
    /\ \E j \in (lastMatch.idx + 1)..(lastMatch.close - 1) : html[j].kind = "close"
    /\ \E j \in (lastMatch.idx + 1)..(lastMatch.close - 1) : html[j].kind = "ws"

\* C3: an instance whose scan reaches the end of the document with depth > 0
\* records nothing (every key comes from a balanced instance the loop has
\* passed); the loop terminates (each iteration handles the next match and
\* moves the regex position forward, within the document); the matches behind
\* a dropped instance are still processed (no match is passed over, and at the
\* end every balanced instance's variant has an entry).
C3_UnbalancedDropped ==
    /\ lastMatch.outcome = "dropped" => BalancedClose(html, lastMatch.idx) = 0
    /\ lastMatch.outcome = "recorded" => BalancedClose(html, lastMatch.idx) # 0
    /\ \A v \in DOMAIN blockInstances :
           \E m \in BalancedInstances(html, blockName, v) : m < lastIndex
    /\ lastIndex = lastMatch.idx + 1 /\ lastIndex <= Len(html) + 1
    /\ \A m \in 1..(lastIndex - 1) :
           OpenTagMatches(html[m], blockName) => m <= lastMatch.idx
    /\ pcParse = "done" =>
           /\ \A m \in lastIndex..Len(html) : ~OpenTagMatches(html[m], blockName)
           /\ \A m \in 1..Len(html) :
               (OpenTagMatches(html[m], blockName) /\ BalancedClose(html, m) # 0)
                   => FindVariant(SplitClasses(html[m]), blockName) \in DOMAIN blockInstances

\* The parse is over, an unbalanced instance was dropped and an instance behind
\* it was recorded.
C3_Witness ==
    /\ pcParse = "done"
    /\ lastMatch.outcome = "recorded"
    /\ \E m \in 1..(lastMatch.idx - 1) :
           /\ OpenTagMatches(html[m], blockName)
           /\ BalancedClose(html, m) = 0
           /\ FindVariant(SplitClasses(html[m]), blockName) \notin DOMAIN blockInstances

\* C4: the variant key of a matched instance is the first class name of its
\* class attribute that is neither the block name nor starts with the block
\* name and a hyphen, the empty string when there is no such class name.
C4_VariantKey ==
    lastMatch.outcome # "none" =>
        lastMatch.variant = FirstVariantName(html[lastMatch.idx], blockName)

\* ------------------------------------------------ extractor claim (C5)

\* The candidate's page can be fetched and decoded and holds a block instance
\* with a balanced close.
PageYields(resp, name) ==
    /\ resp.kind \in {"html", "json"}
    /\ \E m \in 1..Len(resp.doc) :
           OpenTagMatches(resp.doc[m], name) /\ BalancedClose(resp.doc, m) # 0

\* C5: the candidates are fetched strictly in the given order; a candidate
\* whose fetch or parse fails or that yields no instance is skipped without an
\* error; sourceUsed is the first candidate in order that yields an instance
\* and nothing is fetched behind it; with no yielding candidate, or no paths,
\* the result is {content: absent, sourceUsed: absent}.
C5_FirstYieldingCandidate ==
    /\ extractResult.status \in {"none", "returned"}
    /\ Len(fetched) <= Len(sourcePaths.paths)
    /\ fetched = SubSeq(sourcePaths.paths, 1, Len(fetched))
    /\ pcExtract = "done" =>
        LET paths == sourcePaths.paths
            good  == {i \in 1..Len(paths) : PageYields(pages[paths[i]], blockName)}
        IN  IF NoSourcePaths(sourcePaths)
            THEN ~extractResult.found /\ fetched = <<>>
            ELSE IF good = {}
            THEN ~extractResult.found /\ fetched = paths
            ELSE /\ extractResult.found
                 /\ extractResult.sourceUsed = paths[Min(good)]
                 /\ extractResult.content # << >>
                 /\ fetched = SubSeq(paths, 1, Min(good))

\* A failing candidate and an empty one were skipped, the third was used and a
\* later candidate was left unfetched.
C5_Witness ==
    /\ pcExtract = "done"
    /\ extractResult.found
    /\ Len(fetched) = 3
    /\ Len(sourcePaths.paths) > 3
    /\ pages[fetched[1]].kind = "error"
    /\ pages[fetched[2]].kind = "html"

\* ------------------------------------------ source resolution claims (C6, C7)

\* C6: whenever remote config is supplied the remote-backed source is
\* returned, even with local options beside it, and whenever a local path is
\* supplied without remote config, with or without the use-local flag, a local
\* source rooted at that path is returned.
C6_ResolutionOrder ==
    pcResolve = "done" =>
        /\ args.github.given =>
               resolved.status = "ok" /\ resolved.type = "github"
        /\ (~args.github.given /\ ~Falsy(args.localBlocksPath)) =>
               /\ resolved.status = "ok"
               /\ resolved.type = "local"
               /\ resolved.root = args.localBlocksPath

\* C7: with no remote config, no local flag, no local path and no blocks
\* directory under the working directory, resolution fails with an error and
\* returns no source, in resolveBlockSource and createBlockSource alike.
C7_NoSourceFails ==
    ( /\ pcResolve = "done"
      /\ ~args.github.given
      /\ ~args.useLocal
      /\ Falsy(args.localBlocksPath)
      /\ ~cwdHasBlocks ) => resolved.status = "error"

\* ------------------------------------------------ best-effort reads (C8)

\* The read fails for this source in this environment.
ReadFails(read) == source.root = "Promise" \/ read \in env.throws

\* C8: for the local and the remote source no failing read propagates:
\* getFileContent yields absent, fileExists false, listDirectories and
\* listFiles the empty sequence; list, get-files and analyze always complete,
\* with hasJS / hasCSS / hasReadme false for the files that could not be read
\* and an empty block list when the blocks directory could not be listed.
C8_ReadsBestEffort ==
    pcReads = "done" =>
        /\ ~readResult.threw
        /\ readResult.op = "getFileContent" =>
               (ReadFails(readResult.file) => readResult.value = Null)
        /\ readResult.op = "fileExists" =>
               (ReadFails("access") => readResult.value = FALSE)
        /\ readResult.op = "listDirectories" =>
               (ReadFails("readdir") => readResult.value = <<>>)
        /\ readResult.op = "listFiles" =>
               (ReadFails("entries") => readResult.value = <<>>)
        /\ readResult.op = "listBlocks" =>
               /\ ReadFails("readdir") => readResult.value = <<>>
               /\ \A i \in 1..Len(readResult.value) :
                      LET b == readResult.value[i]
                      IN  /\ ReadFails(ReadOf(b.name, "cards", "js")) => ~b.hasJS
                          /\ ReadFails(ReadOf(b.name, "cards", "css")) => ~b.hasCSS
        /\ readResult.op \in {"getBlockFiles", "analyzeBlock"} =>
               /\ ReadFails("js") => ~readResult.value.hasJS
               /\ ReadFails("css") => ~readResult.value.hasCSS
        /\ readResult.op = "getBlockFiles" =>
               /\ ReadFails("js") => readResult.value.jsContent = Null
               /\ (\A i \in 1..Len(ReadmeNames) : ReadFails(ReadmeNames[i]))
                      => ~readResult.value.hasReadme

\* get-files completed on a remote source whose script read failed while the
\* stylesheet and the second README variant could be read.
C8_Witness ==
    /\ pcReads = "done"
    /\ readResult.op = "getBlockFiles"
    /\ source.type = "github"
    /\ ReadFails("js") /\ ReadFails("README.md")
    /\ ~readResult.value.hasJS
    /\ readResult.value.hasCSS
    /\ readResult.value.hasReadme

\* --------------------------------------------- checkBlockDocExists (C9)

\* The message holds the three characters 404 somewhere.
Holds404(message) ==
    \E i \in 1..Len(message) :
        i + 2 <= Len(message) /\ SubSeq(message, i, i + 2) = <<"4", "0", "4">>

\* C9: checkBlockDocExists returns exists:true when the read succeeds, returns
\* exists:false, without raising, exactly when the read fails with an error
\* whose message contains '404', and re-raises every other read failure
\* unchanged.
C9_NotFoundOnly404 ==
    (pcDoc = "done" /\ docResult.op = "checkBlockDocExists") =>
        LET read   == requests = <<"daAdminRequest">>
            failed == read /\ ~readResponse.ok
            is404  == /\ failed
                      /\ readResponse.error.hasMessage
                      /\ Holds404(readResponse.error.message)
        IN  /\ (read /\ readResponse.ok) =>
                   docResult.status = "returned" /\ docResult.exists
            /\ (docResult.status = "returned" /\ ~docResult.exists) <=> is404
            /\ (failed /\ ~is404) =>
                   docResult.status = "threw" /\ docResult.error = readResponse.error

\* The read failed with a message that holds 404 behind another character and
\* the call returned exists:false.
C9_Witness ==
    /\ pcDoc = "done"
    /\ docResult.op = "checkBlockDocExists"
    /\ docResult.status = "returned"
    /\ ~docResult.exists
    /\ readResponse.error.message = <<"x", "4", "0", "4">>

\* --------------------------------------------- generateBlockTemplate (C10)

\* C10: generateBlockTemplate emits one section per element of the variant
\* list, in list order, and one section, the unnamed base variant, when the
\* list is empty or absent; a section's content is the content mapping's entry
\* for its variant, else the entry of the base variant '', else empty.
C10_SectionPerVariant ==
    pcTemplate = "done" =>
        LET given == tplArgs.variants = "array" /\ tplArgs.list # <<>>
            keys  == IF tplArgs.hasContent THEN DOMAIN tplArgs.content ELSE {}
        IN  /\ given =>
                   /\ Len(sections) = Len(tplArgs.list)
                   /\ \A i \in 1..Len(sections) : sections[i].class.variant = tplArgs.list[i]
            /\ ~given => Len(sections) = 1 /\ sections[1].class.variant = ""
            /\ \A i \in 1..Len(sections) :
                   LET v == sections[i].class.variant
                   IN  sections[i].content =
                           IF v \in keys THEN tplArgs.content[v]
                           ELSE IF "" \in keys THEN tplArgs.content[""]
                           ELSE ""

\* C10, amended: one section per element of the variant list, in list order,
\* and one base section when the list is empty or absent; a section's content
\* is the mapping's entry for its variant when that entry is a non-empty
\* string, else the entry of the base variant '' when that is a non-empty
\* string, else empty.
C10_SectionPerVariantNonEmpty ==
    pcTemplate = "done" =>
        LET given == tplArgs.variants = "array" /\ tplArgs.list # <<>>
            keys  == IF tplArgs.hasContent
                     THEN {k \in DOMAIN tplArgs.content : tplArgs.content[k] # ""}
                     ELSE {}
        IN  /\ given =>
                   /\ Len(sections) = Len(tplArgs.list)
                   /\ \A i \in 1..Len(sections) : sections[i].class.variant = tplArgs.list[i]
            /\ ~given => Len(sections) = 1 /\ sections[1].class.variant = ""
            /\ \A i \in 1..Len(sections) :
                   LET v == sections[i].class.variant
                   IN  sections[i].content =
                           IF v \in keys THEN tplArgs.content[v]
                           ELSE IF "" \in keys THEN tplArgs.content[""]
                           ELSE ""

\* Two sections were generated: the first holds its variant's own entry, the
\* second, whose variant has no entry, holds the base variant's.
C10_Witness ==
    /\ pcTemplate = "done"
    /\ tplArgs.list = <<"dark", "light">>
    /\ tplArgs.hasContent
    /\ DOMAIN tplArgs.content = {"", "dark"}
    /\ Len(sections) = 2
    /\ sections[1].content = "A"
    /\ sections[2].content = "B"

\* ------------------------------------------- generateAutoDescription (C11)

\* The words of the "with" part: images, headings, buttons, in that order,
\* each when its flag is set.
C11_Words(a) ==
    LET FlagSet(x) == x.flag \in a.structure
        kept == SelectSeq(<<[flag |-> "hasImage",   word |-> "images"],
                            [flag |-> "hasHeading", word |-> "headings"],
                            [flag |-> "hasButton",  word |-> "buttons"]>>, FlagSet)
    IN  [i \in 1..Len(kept) |-> kept[i].word]

\* A prefix followed by the items, a comma and a space between two items.
C11_Listed(prefix, items) ==
    [i \in 1..(2 * Len(items)) |->
        IF i = 1 THEN prefix ELSE IF i % 2 = 0 THEN items[i \div 2] ELSE ", "]

\* The parts that apply, in their order.
C11_Parts(a) ==
    LET vs == IF a.variants = "array" THEN a.list ELSE <<>>
    IN     (IF "hasMultipleItems" \in a.structure
            THEN << <<"Multi-item layout">> >> ELSE <<>>)
        \o (IF C11_Words(a) # <<>>
            THEN <<C11_Listed("with ", C11_Words(a))>> ELSE <<>>)
        \o (IF vs # <<>> THEN <<C11_Listed("Variants: ", vs)>> ELSE <<>>)

\* C11: without an explicit description, every generated section's description
\* is 'Multi-item layout' iff the multi-item flag is set, then 'with ' and
\* those of images, headings, buttons whose flags are set, in that order, then
\* 'Variants: ' and the variants when the list is non-empty, the parts joined
\* by single spaces; it is '<Capitalized block name> block' iff none of the
\* three parts applies; an explicit description is used unchanged.
C11_AutoDescription ==
    pcTemplate = "done" =>
        \A i \in 1..Len(sections) :
            LET d     == sections[i].description
                parts == C11_Parts(tplArgs)
            IN  IF tplArgs.description \notin {"undefined", "null", ""}
                THEN Len(d) = 1 /\ d[1] = tplArgs.description
                ELSE IF parts = <<>>
                THEN /\ Len(d) = 2
                     /\ d[1] = Capitalize(tplArgs.blockName)
                     /\ d[2] = " block"
                ELSE /\ Len(d) = 2 * Len(parts) - 1
                     /\ \A k \in 1..Len(d) :
                            d[k] = IF k % 2 = 1 THEN parts[(k + 1) \div 2] ELSE <<" ">>

\* Two sections were generated without a description, from a multi-item
\* structure with images and buttons and two variants: all three parts apply.
C11_Witness ==
    /\ pcTemplate = "done"
    /\ tplArgs.description = "undefined"
    /\ tplArgs.structure = {"hasMultipleItems", "hasImage", "hasButton"}
    /\ tplArgs.list = <<"dark", "light">>
    /\ Len(sections) = 2
    /\ Len(sections[2].description) = 5
    /\ sections[2].description[3] = <<"with ", "images", ", ", "buttons">>
    /\ sections[2].description[5] = <<"Variants: ", "dark", ", ", "light">>


\* --------------------------------------------- analyzeBlock variants (C12)

\* A character of a class name: [a-zA-Z0-9_-].
C12_NameChar(t) == t \in CssWords \cup {"-"}

\* The class name that starts at position i of the text.
C12_NameAt(text, i) ==
    LET stops == {j \in i..(Len(text) + 1) : j = Len(text) + 1 \/ ~C12_NameChar(text[j])}
    IN  SubSeq(text, i, Min(stops) - 1)

\* The names v of the compound selectors .B.v of the text; a name starts with
\* a letter.
C12_CompoundNames(text, B) ==
    {C12_NameAt(text, i + 3) :
        i \in {k \in 1..(Len(text) - 3) :
                  /\ text[k] = "."
                  /\ C12_NameAt(text, k + 1) = <<B>>
                  /\ text[k + 2] = "."
                  /\ text[k + 3] \in CssWords}}

\* C12: analyzeBlock's variant list is exactly the deduplicated set of the
\* names v, different from the block's name B, such that the stylesheet
\* contains the compound selector .B.v; B itself is never a variant.
C12_VariantsAreCompoundNames ==
    pcAnalyze = "done" =>
        /\ \A i, j \in 1..Len(analysis.variants) :
               analysis.variants[i] = analysis.variants[j] => i = j
        /\ {analysis.variants[i] : i \in 1..Len(analysis.variants)}
               = C12_CompoundNames(cssContent.text, analyzedBlock) \ {<<analyzedBlock>>}


\* ------------------------------------------------ sheet store (C13 - C15)

\* The sheet the last call addressed, before and after it.
CalledSheetBefore == sheetBefore[GetPlaceholdersPath(sheetCall.configPath)]

CalledSheet == sheets[GetPlaceholdersPath(sheetCall.configPath)]

\* The last call's sheet operation completed.
SheetCallCompleted ==
    sheetCall.step = "sheetWrite" /\ sheetResult.status \in {"pending", "returned"}

PositionsOf(records, key) == {i \in 1..Len(records) : records[i].key = key}

\* The text of the last candidate of the batch with the key.
LastTextOf(batch, key) ==
    LET at == {i \in 1..Len(batch) : batch[i].key = key}
    IN  batch[CHOOSE i \in at : \A j \in at : j <= i].text

FirstPositionOf(batch, key) == Min({i \in 1..Len(batch) : batch[i].key = key})

\* C13: after any sequence of add, batch-setup and remove calls no two records
\* of a sheet share a key; an upsert whose key exists replaces that record at
\* its position and leaves the number and order of records unchanged, an upsert
\* with a new key appends at the end, and a key upserted twice has exactly one
\* record, holding the later value.
C13_UpsertKeepsKeysUnique ==
    LET before == CalledSheetBefore
        after  == CalledSheet
        batch  == sheetCall.placeholders
        inBatch(k) == \E i \in 1..Len(batch) : batch[i].key = k
    IN  /\ \A p \in DOMAIN sheets : \A i, j \in 1..Len(sheets[p]) :
               sheets[p][i].key = sheets[p][j].key => i = j
        /\ (sheetCall.op = "add" /\ SheetCallCompleted) =>
               LET entry == [key |-> sheetCall.key, value |-> sheetCall.text]
                   at    == PositionsOf(before, sheetCall.key)
               IN  /\ at # {} =>
                          /\ Len(after) = Len(before)
                          /\ \A i \in 1..Len(after) :
                                 after[i] = IF i \in at THEN entry ELSE before[i]
                   /\ at = {} => after = before \o <<entry>>
                   /\ Cardinality(PositionsOf(after, sheetCall.key)) = 1
        /\ (sheetCall.op = "setup" /\ SheetCallCompleted) =>
               /\ Len(after) >= Len(before)
               /\ \A i \in 1..Len(before) :
                      /\ after[i].key = before[i].key
                      /\ after[i].value = IF inBatch(before[i].key)
                                          THEN LastTextOf(batch, before[i].key)
                                          ELSE before[i].value
               /\ \A i \in (Len(before) + 1)..Len(after) :
                      /\ inBatch(after[i].key)
                      /\ after[i].value = LastTextOf(batch, after[i].key)
                      /\ \A j \in (Len(before) + 1)..Len(after) :
                             i < j => FirstPositionOf(batch, after[i].key)
                                          < FirstPositionOf(batch, after[j].key)
               /\ \A i \in 1..Len(batch) : Cardinality(PositionsOf(after, batch[i].key)) = 1

\* An add replaced the first of two records by a later value, the second
\* staying where it was.
C13_Witness ==
    /\ sheetCall.op = "add"
    /\ SheetCallCompleted
    /\ sheetCall.key = "a"
    /\ CalledSheetBefore = <<[key |-> "a", value |-> "1"], [key |-> "b", value |-> "1"]>>
    /\ CalledSheet = <<[key |-> "a", value |-> "2"], [key |-> "b", value |-> "1"]>>


\* The entries of the registration sheet for the Placeholders type.
C14_Entries(lib) == {i \in 1..Len(lib.entries) : lib.entries[i].title = "Placeholders"}

\* C14: library registration is idempotent: after any number of registration
\* calls for the type the registration sheet holds exactly one entry for it;
\* the first call reports it newly created, every later call reports that it
\* already existed and leaves the entry count unchanged.
C14_RegistrationIdempotent ==
    /\ Cardinality(C14_Entries(library)) <= 1
    /\ (sheetCall.op \in {"add", "setup"} /\ sheetResult.status = "returned") =>
           LET had == C14_Entries(libraryBefore) # {}
           IN  /\ Cardinality(C14_Entries(library)) = 1
               /\ regResult.existed = had
               /\ regResult.libraryEntryCount = Len(library.entries)
               /\ had => library.entries = libraryBefore.entries
               /\ ~had => Len(library.entries) = Len(libraryBefore.entries) + 1
               /\ sheetCall.op = "add" => sheetResult.alreadyRegistered = had
               /\ sheetCall.op = "setup" =>
                      sheetResult.librarySheet.entryCount = Len(library.entries)

\* A later call found the type registered beside another type's entry: it
\* reports that the entry existed and the sheet still holds two entries.
C14_Witness ==
    /\ sheetCall.op = "add"
    /\ sheetResult.status = "returned"
    /\ sheetResult.alreadyRegistered
    /\ Len(libraryBefore.entries) = 2
    /\ Len(library.entries) = 2
    /\ Cardinality(C14_Entries(library)) = 1


\* C15: removal by key deletes only the first record whose key matches: when
\* the key is present it reports removed = true and the record list is one
\* shorter, all other records and their order unchanged; when the key is absent
\* it reports removed = false and the record list is unchanged.
C15_RemoveFirstMatch ==
    (sheetCall.op = "remove" /\ sheetResult.status = "returned") =>
        LET before == CalledSheetBefore
            after  == CalledSheet
            at     == PositionsOf(before, sheetCall.key)
        IN  /\ sheetResult.removed = (at # {})
            /\ at = {} => after = before
            /\ at # {} =>
                   /\ Len(after) = Len(before) - 1
                   /\ \A i \in 1..Len(after) :
                          after[i] = IF i < Min(at) THEN before[i] ELSE before[i + 1]
            /\ \A p \in DOMAIN sheets :
                   p # GetPlaceholdersPath(sheetCall.configPath) => sheets[p] = sheetBefore[p]
            /\ library = libraryBefore

\* Of two records with the key the first was removed: the record between them
\* moved up and the second one stayed.
C15_Witness ==
    /\ sheetCall.op = "remove"
    /\ sheetResult.status = "returned"
    /\ sheetResult.removed
    /\ sheetCall.key = "a"
    /\ CalledSheetBefore = <<[key |-> "a", value |-> "1"], [key |-> "b", value |-> "1"],
                             [key |-> "a", value |-> "2"]>>
    /\ CalledSheet = <<[key |-> "b", value |-> "1"], [key |-> "a", value |-> "2"]>>


\* ------------------------------------------ validation before I/O (C16)

\* C16: createBlockDoc and checkBlockDocExists validate the block name before
\* any I/O: for a name validateBlockName reports invalid the operation fails
\* with the validation error and no request, read or upload, has been issued
\* to the document store.
C16_ValidateBeforeIO ==
    (pcDoc = "done" /\ ~docBlock.valid) =>
        /\ docResult.status = "threw"
        /\ docResult.error.kind = "validation"
        /\ requests = <<>>

\* checkBlockDocExists was called with an invalid name while the store would
\* have answered the read: it threw the validation error and issued nothing.
C16_Witness ==
    /\ pcDoc = "done"
    /\ ~docBlock.valid
    /\ docResult.op = "checkBlockDocExists"
    /\ docResult.status = "threw"
    /\ readResponse.ok
    /\ requests = <<>>


\* ------------------------------------- sheet write, then registration (C17)

C17_RegisterCalls == {i \in 1..Len(sheetLog) : sheetLog[i].call = "registerLibraryType"}

\* The sheet the last call addressed holds the records of the call.
C17_HoldsNewRecords ==
    LET candidates == IF sheetCall.op = "add"
                      THEN <<[key |-> sheetCall.key, text |-> sheetCall.text]>>
                      ELSE sheetCall.placeholders
    IN  \A i \in 1..Len(candidates) :
            \E j \in 1..Len(CalledSheet) :
                /\ CalledSheet[j].key = candidates[i].key
                /\ CalledSheet[j].value = LastTextOf(candidates, candidates[i].key)

\* The registration has been issued only by a handler whose sheet write was
\* answered with success, and a handler whose sheet call failed has thrown
\* without issuing it.
C17_RegisterOnlyAfterWrite ==
    /\ C17_RegisterCalls \subseteq {2}
    /\ C17_RegisterCalls # {} =>
           \/ sheetCall.step = "sheetWrite" /\ sheetResult.status = "pending"
           \/ sheetCall.step \in {"libraryRead", "libraryWrite"}
    /\ sheetResult.failedAt = "sheet" =>
           /\ sheetCall.step \in {"sheetRead", "sheetWrite"}
           /\ sheetResult.status = "threw"
           /\ C17_RegisterCalls = {}

\* C17: in the add-placeholder and batch-setup handlers the registration is
\* attempted only after the placeholder sheet write completed: a failed sheet
\* write means no registration request is issued; and the two steps are not
\* atomic: when the registration then fails the handler reports a failure
\* although the placeholder sheet already holds the new records.
C17_RegisterAfterSheetWrite ==
    sheetCall.op \in {"add", "setup"} =>
        /\ C17_RegisterOnlyAfterWrite
        /\ sheetResult.failedAt = "register" =>
               /\ sheetResult.status = "threw"
               /\ C17_RegisterCalls = {2}
               /\ C17_HoldsNewRecords

\* C17, amended: in the add-placeholder and batch-setup handlers the
\* registration is attempted only after the placeholder sheet write completed:
\* a failed sheet write means no registration request is issued; and the two
\* steps are not atomic: when the registration then fails the handler reports
\* a failure although the placeholder sheet already holds the new records,
\* unless another call has changed the sheet since the handler wrote it.
C17_RegisterAfterSheetWriteUnlessRewritten ==
    sheetCall.op \in {"add", "setup"} =>
        /\ C17_RegisterOnlyAfterWrite
        /\ sheetResult.failedAt = "register" =>
               /\ sheetResult.status = "threw"
               /\ C17_RegisterCalls = {2}
               /\ ~sheetCall.rewritten => C17_HoldsNewRecords

\* An add handler's registration failed while another call was in flight and
\* none had changed the sheet: the handler threw and the sheet holds its
\* record.
C17_Witness ==
    /\ sheetCall.op = "add"
    /\ sheetCall.step = "libraryRead"
    /\ sheetResult.status = "threw"
    /\ sheetResult.failedAt = "register"
    /\ ~sheetCall.rewritten
    /\ CalledSheet = <<[key |-> sheetCall.key, value |-> sheetCall.text]>>
    /\ BagCardinality(inFlight) >= 1


====
